---- MODULE Spec2Model ----
(***************************************************************************)
(* State-machine model of two components of SatDump:                       *)
(*   - projection::LEOScanProjector (leo_projection.cpp): construction     *)
(*     (initCurvatureTable, generateProjections) and the inverse() query;  *)
(*   - fengyun3::mwts3::MWTS3Reader (mwts3_reader.cpp): constructor and    *)
(*     work().                                                             *)
(* Floating-point quantities are carried in fixed point (FX units per 1.0) *)
(* and times in milliseconds; a float NaN is carried as a flagged record.  *)
(***************************************************************************)
EXTENDS Integers, Sequences, FiniteSets, TLC

\* ------------------------------------------------------------------ bounds

\* Largest number of scan-line timestamps in a configuration.
MaxLines == 2

\* Largest raw image width in a configuration (the smallest is MinWidth).
MaxWidth == 4

\* ------------------------------------------------------ numeric primitives

\* Fixed-point scale: a float v is carried as the integer v * FX.
FX == 10 * 1000

Abs(x) == IF x < 0 THEN 0 - x ELSE x

Sgn(x) == IF x < 0 THEN 0 - 1 ELSE IF x > 0 THEN 1 ELSE 0

\* Product of two non-negative fixed-point numbers.
MulFx(a, b) == (a * b) \div FX

\* sinf on [-0.5, 0.5] rad: odd Taylor polynomial to the 5th order.
sinf(a) ==
    LET x  == Abs(a)
        x3 == MulFx(MulFx(x, x), x)
        x5 == MulFx(MulFx(x3, x), x)
    IN  Sgn(a) * (x - (x3 \div 6) + (x5 \div 120))

\* cosf on [-0.5, 0.5] rad: even Taylor polynomial to the 4th order.
cosf(a) ==
    LET x  == Abs(a)
        x2 == MulFx(x, x)
        x4 == MulFx(x2, x2)
    IN  FX - (x2 \div 2) + (x4 \div 24)

\* atanf on [0, 1]: pi/4 x + x (1 - x) (0.2447 + 0.0663 x), error < 0.0015 rad.
AtanUnit(x) ==
    ((7854 * x) \div FX) + MulFx(MulFx(x, FX - x), 2447 + ((663 * x) \div FX))

\* atanf on the whole line (odd; atan x = pi/2 - atan(1/x) above 1).
atanf(q) ==
    LET x == Abs(q)
    IN  Sgn(q) * (IF x <= FX THEN AtanUnit(x)
                  ELSE 15708 - AtanUnit((FX * FX) \div x))

\* round(a / b) for a >= 0, b > 0 (C round(): halves away from zero).
RoundDiv(a, b) == ((2 * a) + b) \div (2 * b)

\* int(f): the C conversion of a non-negative float to int truncates.
IntOf(f) == f \div FX

\* round(f) of a non-negative float, as an integer.
RoundOf(f) == (f + (FX \div 2)) \div FX

\* ------------------------------------------------------- curvature geometry

EARTH_RADIUS == 6371

\* satellite_orbit_radius = EARTH_RADIUS + settings.correction_height
OrbitRadius(s) == EARTH_RADIUS + s.correction_height

\* The corrected width truncated instead of rounded.
CorrectedWidthTruncated(s) == s.correction_swath \div s.correction_res

\* corrected_width = round(correction_swath / correction_res)
CorrectedWidth(s) == RoundDiv(s.correction_swath, s.correction_res)

\* satellite_view_angle = correction_swath / EARTH_RADIUS
ViewAngle(s) == (s.correction_swath * FX) \div EARTH_RADIUS

\* -atanf(R sinf(a) / (cosf(a) R - r_orbit)): the orbit is above the ground, so
\* the denominator is negative and the result has the sign of a.
ToSatAngle(s, a) ==
    LET num == EARTH_RADIUS * sinf(Abs(a))
        den == (OrbitRadius(s) * FX) - (EARTH_RADIUS * cosf(a))
    IN  Sgn(a) * atanf((num * 100) \div (den \div 100))

\* edge_angle: the view angle at the edge of the swath.
EdgeAngle(s) == ToSatAngle(s, ViewAngle(s) \div 2)

\* angle = (float(i) / float(corrected_width) - 0.5f) * satellite_view_angle
ScanAngle(s, i) ==
    LET cw == CorrectedWidth(s)
        k  == (2 * i) - cw
    IN  Sgn(k) * ((Abs(k) * ViewAngle(s)) \div (2 * cw))

\* f = image_width * ((satellite_angle / edge_angle + 1.0f) / 2.0f)
RawPixelOf(s, i) ==
    LET sa    == ToSatAngle(s, ScanAngle(s, i))
        ratio == Sgn(sa) * ((Abs(sa) * FX) \div EdgeAngle(s))
    IN  (s.image_width * (ratio + FX)) \div 2

\* --------------------------------------------------------------- floats

\* A float that may be NaN.
FNum(v) == [nan |-> FALSE, v |-> v]

NaN == [nan |-> TRUE, v |-> 0]

\* a - b and a + b on floats: NaN propagates.
FSub(a, b) == IF a.nan \/ b.nan THEN NaN ELSE FNum(a.v - b.v)

FAdd(a, b) == IF a.nan \/ b.nan THEN NaN ELSE FNum(a.v + b.v)

\* a > 0 on floats: every comparison with NaN is false.
FPositive(a) == (~a.nan) /\ a.v > 0

\* x * 57.29578 (radians to degrees), in fixed point.
ToDeg(x) == Sgn(x) * ((Abs(x) * 5730) \div 100)

\* The C conversion of a float product to int: truncation toward zero.
TruncDiv(a, b) == Sgn(a) * (Abs(a) \div b)

\* Times are carried in milliseconds; the source's timestamps are seconds.
Seconds(n) == n * 1000

\* ------------------------------------------------- external collaborators

\* The orbital elements a configuration may carry.
TleSet == {"ascending", "descending", "stationary", "fast"}

\* predict_orbit(satellite_object, &pos, t): the oracle's position at time t
\* (radians in fixed point, kilometres).
predict_orbit(tle, t) ==
    [time      |-> t,
     latitude  |-> CASE tle = "ascending"  -> t \div 100
                     [] tle = "descending" -> 8000 - (t \div 100)
                     [] tle = "stationary" -> 3000
                     [] OTHER              -> 0,
     longitude |-> CASE tle = "stationary" -> 1000
                     [] tle = "fast"       -> t \div 20
                     [] OTHER              -> t \div 400,
     altitude  |-> 827,
     footprint |-> 6000 + ((t \div 500) % 10)]

\* TPERSProjection::init(altitude, lon, lat, tilt, azimuth): the projection
\* captures its parameters.
TPERSInit(alt, plon, plat, tilt, az) ==
    [altitude |-> alt, lon |-> plon, lat |-> plat, tilt |-> tilt, az |-> az]

\* Threshold above which toSatCoords rejects a projected coordinate (1e10f in
\* the source; here in the model's fixed point, above every finite value the
\* modelled projection returns).
SAT_LIMIT == 1000000

\* TPERSProjection::forward(lon, lat, x, y): tangent-plane coordinates of a
\* point seen from the projection's centre; very large values for a point
\* beyond the horizon (25 degrees from the centre).
TPERSForward(pj, plon, plat) ==
    LET dlon == plon - pj.lon
        dlat == plat - pj.lat
    IN  IF Abs(dlon) > 25 * FX \/ Abs(dlat) > 25 * FX
        THEN <<2 * SAT_LIMIT, 2 * SAT_LIMIT>>
        ELSE <<TruncDiv(dlon, 100), TruncDiv(dlat, 100)>>

\* TPERSProjection::inverse(x, y, lon, lat): 0 and the point at (x, y) when
\* |x| <= 1, non-zero (outputs untouched) outside the projection's range. x is
\* the fraction <<numerator, denominator>>, denominator > 0.
TPERSInverse(pj, x, y, out) ==
    IF Abs(x[1]) <= x[2]
    THEN [ret |-> 0, geo |-> [written |-> TRUE, pj |-> pj, x |-> x, y |-> y]]
    ELSE [ret |-> 1, geo |-> out]

\* ---------------------------------------------------------- configuration

MinWidth == 3

\* LEOScanProjectorSettings: every combination of the field values explored
\* (the caller builds a projector only from at least one scan line).
AllSettings ==
    [proj_offset       : {0, 1},
     correction_swath  : {1400, 2800},
     correction_res    : {200, 600},
     correction_height : {827},
     instrument_swath  : {2200},
     proj_scale        : {2},
     az_offset         : {0, 3},
     tilt_offset       : {0},
     time_offset       : {0, 500},
     image_width       : MinWidth..MaxWidth,
     invert_scan       : BOOLEAN,
     sat_tle           : TleSet,
     utc_timestamps    : UNION {[1..n -> {Seconds(300), Seconds(301)}] : n \in 1..MaxLines}]

\* The configuration the explored ones vary.
BaseSettings ==
    [proj_offset |-> 0, correction_swath |-> 1400, correction_res |-> 600,
     correction_height |-> 827, instrument_swath |-> 2200, proj_scale |-> 2,
     az_offset |-> 0, tilt_offset |-> 0, time_offset |-> 0,
     image_width |-> MinWidth, invert_scan |-> FALSE, sat_tle |-> "ascending",
     utc_timestamps |-> <<Seconds(300)>>]

\* The fields of the image geometry, and those of the orbit and its timing.
GeometryFields ==
    {"proj_offset", "correction_swath", "correction_res", "image_width", "invert_scan"}

OrbitFields == {"az_offset", "time_offset", "sat_tle", "utc_timestamps"}

\* s departs from the base configuration in the fields F at most.
VariesOnly(s, F) == \A f \in (DOMAIN s) \ F : s[f] = BaseSettings[f]

\* The configurations explored: the base one with its whole image geometry
\* varied, and the base one with its whole orbit and timing varied.
SettingsSet ==
    {s \in AllSettings : VariesOnly(s, GeometryFields) \/ VariesOnly(s, OrbitFields)}

\* ------------------------------------------------------------------ state

VARIABLES
    settings,                          \* LEOScanProjector::settings
    pc,                                \* where the projector's life stands
    corrected_width,
    curvature_correction_factors_fwd,  \* vector<float>, grown by push_back
    curvature_correction_factors_inv,  \* reserved storage, slot -> value
    i,                                 \* initCurvatureTable's loop index
    currentScan,                       \* generateProjections' loop index
    poss,
    projs,
    sat_footprints,
    oracle_calls,                      \* per line: the times predict_orbit was asked
    call,                              \* the last inverse() call and what it did
    geo,                               \* the last call's lat / lon output variables
    channels,                          \* MWTS3Reader::channels
    lines,                             \* MWTS3Reader::lines
    timestamps,                        \* MWTS3Reader::timestamps
    write_outside,                     \* a work() sample write fell outside its buffer
    fed,                               \* payload size of the last packet given to work()
    scan                               \* where work() put the packets of the scan under way

leoVars ==
    <<settings, pc, corrected_width, curvature_correction_factors_fwd,
      curvature_correction_factors_inv, i, currentScan, poss, projs,
      sat_footprints, oracle_calls, call, geo>>

readerVars == <<channels, lines, timestamps, write_outside, fed, scan>>

vars == <<leoVars, readerVars>>

\* No packet has been given to work() yet.
NoPacket == 0 - 1

\* A slot of reserved storage that nothing has written.
Unwritten == 0 - 1

\* What an uninitialised or out-of-bounds int read may yield.
GarbageInts == {0 - 3, 0, 9}

\* What an out-of-bounds read of projs / sat_footprints may yield.
GarbageProj == TPERSInit(0, 0, 0, 0, NaN)

GarbageFootprints == {1, 6000}

NoCall ==
    [made |-> FALSE, img_x |-> 0, img_y |-> 0, correct |-> FALSE, ret |-> 0,
     line_read |-> FALSE, line_outside |-> FALSE,
     table_read |-> FALSE, table_gap |-> FALSE,
     pj_called |-> FALSE, pjx |-> <<0, 1>>, pjy |-> 0]

NoGeo == [written |-> FALSE, pj |-> GarbageProj, x |-> <<0, 1>>, y |-> 0]

NumLines == Len(settings.utc_timestamps)

\* ------------------------------------------------- LEOScanProjector: build

\* initCurvatureTable, up to its loop: corrected_width is computed and the
\* inverse table's storage reserved (reserve() leaves its size at 0).
InitCurvatureTable ==
    /\ pc = "new"
    /\ corrected_width' = CorrectedWidth(settings)
    /\ curvature_correction_factors_inv' =
           [k \in 0..(settings.image_width - 1) |-> Unwritten]
    /\ i' = 0
    /\ pc' = "curvature"
    /\ UNCHANGED <<settings, curvature_correction_factors_fwd, currentScan, poss,
                   projs, sat_footprints, oracle_calls, call, geo, readerVars>>

\* The store that keeps the first index written to a slot instead of the last.
StoreInvKeepFirst(table, f, idx) ==
    IF table[IntOf(f)] = Unwritten THEN [table EXCEPT ![IntOf(f)] = idx] ELSE table

\* curvature_correction_factors_inv[int(f)] = i
StoreInv(table, f, idx) == [table EXCEPT ![IntOf(f)] = idx]

\* One iteration of initCurvatureTable's loop.
CurvatureStep ==
    /\ pc = "curvature"
    /\ i < corrected_width
    /\ LET f == RawPixelOf(settings, i)
       IN  /\ curvature_correction_factors_fwd' =
                  Append(curvature_correction_factors_fwd, f)
           /\ curvature_correction_factors_inv' =
                  StoreInv(curvature_correction_factors_inv, f, i)
    /\ i' = i + 1
    /\ UNCHANGED <<settings, pc, corrected_width, currentScan, poss, projs,
                   sat_footprints, oracle_calls, call, geo, readerVars>>

\* initCurvatureTable returns; generateProjections starts its loop.
BeginGenerate ==
    /\ pc = "curvature"
    /\ i >= corrected_width
    /\ pc' = "generate"
    /\ currentScan' = 0
    /\ UNCHANGED <<settings, corrected_width, curvature_correction_factors_fwd,
                   curvature_correction_factors_inv, i, poss, projs,
                   sat_footprints, oracle_calls, call, geo, readerVars>>

\* The lambda toSatCoords(lat, lon, map_height, map_width) over projection pj.
toSatCoords(pj, plat, plon, map_height, map_width) ==
    LET xy == TPERSForward(pj, plon, plat)
    IN  IF Abs(xy[1]) > SAT_LIMIT \/ Abs(xy[2]) > SAT_LIMIT
        THEN <<0 - 1, 0 - 1>>
        ELSE LET image_x == TruncDiv(xy[1] * 4 * map_width, 2 * FX) + (map_width \div 2)
                 image_y == TruncDiv(xy[2] * 4 * map_height, 2 * FX) + (map_height \div 2)
             IN  <<image_x, (map_height - 1) - image_y>>

\* atan((cc1.second - cc2.second) / (cc1.first - cc2.first)) * 57.29578 on
\* floats: 0/0 is NaN, d/0 is an infinity whose arctangent is +-pi/2.
AzimuthOf(cc1, cc2) ==
    LET dy == cc1[2] - cc2[2]
        dx == cc1[1] - cc2[1]
    IN  IF dx = 0 /\ dy = 0 THEN NaN
        ELSE IF dx = 0 THEN FNum(ToDeg(Sgn(dy) * 15708))
        ELSE FNum(ToDeg(atanf(Sgn(dy) * Sgn(dx) * ((Abs(dy) * FX) \div Abs(dx)))))

AZ_WINDOW == 200

\* The line's time with the time offset forgotten.
LineTimeNoOffset(k) == settings.utc_timestamps[k + 1]

\* The time of line k's own position: utc_timestamps[k] + time_offset.
LineTime(k) == settings.utc_timestamps[k + 1] + settings.time_offset

\* The earlier sample taken 200 milliseconds before t.
SampleBeforeMillis(t) == t - AZ_WINDOW

\* The times of the two finite-difference samples around t.
SampleBefore(t) == t - Seconds(AZ_WINDOW)

SampleAfter(t) == t + Seconds(AZ_WINDOW)

\* The projection generateProjections stores for a line whose time is t.
LineProjection(t) ==
    LET satellite_orbit == predict_orbit(settings.sat_tle, t)
        pj0  == TPERSInit(satellite_orbit.altitude * 1000,
                          ToDeg(satellite_orbit.longitude),
                          ToDeg(satellite_orbit.latitude), 0, FNum(0))
        pos1 == predict_orbit(settings.sat_tle, SampleBefore(t))
        pos2 == predict_orbit(settings.sat_tle, SampleAfter(t))
        cc1  == toSatCoords(pj0, ToDeg(pos1.latitude), ToDeg(pos1.longitude), 200, 200)
        cc2  == toSatCoords(pj0, ToDeg(pos2.latitude), ToDeg(pos2.longitude), 200, 200)
        az0  == AzimuthOf(cc1, cc2)
        invertOffset == FPositive(az0)
        az1  == FSub(az0, FNum(90 * FX))
        az   == IF invertOffset
                THEN FSub(az1, FNum(settings.az_offset * FX))
                ELSE FAdd(az1, FNum(settings.az_offset * FX))
    IN  TPERSInit(satellite_orbit.altitude * 1000,
                  ToDeg(satellite_orbit.longitude),
                  ToDeg(satellite_orbit.latitude),
                  settings.tilt_offset, az)

\* One iteration of generateProjections' loop.
GenerateScan ==
    /\ pc = "generate"
    /\ currentScan < NumLines
    /\ LET currentTimestamp == LineTime(currentScan)
           satellite_orbit  == predict_orbit(settings.sat_tle, currentTimestamp)
       IN  /\ poss' = Append(poss, satellite_orbit)
           /\ projs' = Append(projs, LineProjection(currentTimestamp))
           /\ sat_footprints' = Append(sat_footprints, satellite_orbit.footprint)
           /\ oracle_calls' = Append(oracle_calls,
                  [line |-> currentTimestamp,
                   before |-> SampleBefore(currentTimestamp),
                   after |-> SampleAfter(currentTimestamp)])
    /\ currentScan' = currentScan + 1
    /\ UNCHANGED <<settings, pc, corrected_width, curvature_correction_factors_fwd,
                   curvature_correction_factors_inv, i, call, geo, readerVars>>

\* generateProjections and the constructor return.
Constructed ==
    /\ pc = "generate"
    /\ currentScan >= NumLines
    /\ pc' = "ready"
    /\ UNCHANGED <<settings, corrected_width, curvature_correction_factors_fwd,
                   curvature_correction_factors_inv, i, currentScan, poss, projs,
                   sat_footprints, oracle_calls, call, geo, readerVars>>

\* ------------------------------------------------ LEOScanProjector: query

\* The bounds check with its pixel test off by one (> for >=).
OutOfBoundsPixelOffByOne(img_x, img_y) ==
    img_y > Len(projs) \/ img_x > settings.image_width

\* The bounds check of inverse(): true when the call returns 1 at once.
OutOfBounds(img_x, img_y) ==
    img_y > Len(projs) \/ img_x >= settings.image_width

\* What reading projs[img_y] and sat_footprints[img_y] may yield: the line's
\* entries, or anything when img_y is no index of the sequences.
LineReads(img_y) ==
    IF img_y >= 0 /\ img_y < Len(projs)
    THEN {[pj |-> projs[img_y + 1], footprint |-> sat_footprints[img_y + 1]]}
    ELSE {[pj |-> GarbageProj, footprint |-> g] : g \in GarbageFootprints}

\* A slot of the inverse table that construction wrote.
Populated(img_x) ==
    /\ img_x \in DOMAIN curvature_correction_factors_inv
    /\ curvature_correction_factors_inv[img_x] # Unwritten

\* What reading curvature_correction_factors_inv[img_x] may yield.
TableReads(img_x) ==
    IF Populated(img_x)
    THEN {curvature_correction_factors_inv[img_x]}
    ELSE GarbageInts

\* Twice proj_x with the mirroring of an inverted scan forgotten.
ProjX2NoMirror(corr_x, width) ==
    ((2 * corr_x) - width) + (2 * settings.proj_offset)

\* Twice proj_x: the pixel, mirrored if the scan is inverted, recentred on
\* width / 2.0 and shifted by the pixel offset.
ProjX2(corr_x, width) ==
    LET p == IF settings.invert_scan THEN (width - 1) - corr_x ELSE corr_x
    IN  ((2 * p) - width) + (2 * settings.proj_offset)

\* pjx as a fraction: proj_x / (proj_scale * (width / 2.0)) * instrument_swath / footprint.
ProjCoord(corr_x, width, footprint) ==
    <<ProjX2(corr_x, width) * settings.instrument_swath,
      settings.proj_scale * width * footprint>>

\* inverse(img_x, img_y, lat, lon, correct), called with fresh lat / lon
\* variables (NoGeo): geo is what the call leaves in them.
Inverse(img_x, img_y, correct) ==
    /\ pc = "ready"
    /\ IF OutOfBounds(img_x, img_y)
       THEN /\ call' = [NoCall EXCEPT !.made = TRUE, !.img_x = img_x, !.img_y = img_y,
                                      !.correct = correct, !.ret = 1]
            /\ geo' = NoGeo
            /\ pc' = pc
       ELSE \E rd \in LineReads(img_y) :
            \E corr_x \in (IF correct THEN TableReads(img_x) ELSE {img_x}) :
            LET width == IF correct THEN corrected_width ELSE settings.image_width
                pjx   == ProjCoord(corr_x, width, rd.footprint)
                res   == TPERSInverse(rd.pj, pjx, 0, NoGeo)
                done  == [made |-> TRUE, img_x |-> img_x, img_y |-> img_y, correct |-> correct,
                          ret |-> res.ret,
                          line_read |-> TRUE,
                          line_outside |-> ~(img_y >= 0 /\ img_y < Len(projs)),
                          table_read |-> correct,
                          table_gap |-> correct /\ ~Populated(img_x),
                          pj_called |-> TRUE, pjx |-> pjx, pjy |-> 0]
            IN  \/ /\ call' = done
                   /\ geo' = res.geo
                   /\ pc' = pc
                \* an out-of-bounds read may also end the process
                \/ /\ done.line_outside
                   /\ call' = [done EXCEPT !.pj_called = FALSE, !.ret = 1]
                   /\ geo' = NoGeo
                   /\ pc' = "crashed"
    /\ UNCHANGED <<settings, corrected_width, curvature_correction_factors_fwd,
                   curvature_correction_factors_inv, i, currentScan, poss, projs,
                   sat_footprints, oracle_calls, readerVars>>

\* The queries explored: every pixel up to the one past the image's edge,
\* every line up to the second past the last.
Query ==
    \E img_x \in 0..settings.image_width :
    \E img_y \in 0..(NumLines + 1) :
    \E correct \in BOOLEAN :
        Inverse(img_x, img_y, correct)

\* ------------------------------------------------------------ MWTS3Reader

\* Largest number of scan lines a reader is fed (marker-1 packets accepted).
MaxScanLines == 2

NUM_CHANNELS == 18

SCAN_WIDTH == 98

MIN_PAYLOAD == 1018

\* The packets fed to work(): payload size, first payload byte, the byte the
\* rest of the payload is generated from, and the time its header encodes.
PacketSet ==
    [size : {0, MIN_PAYLOAD - 1, MIN_PAYLOAD},
     b0   : {16 * m : m \in 0..7} \cup {159},
     fill : {7},
     time : {100}]

\* packet.payload[j]
PayloadByte(packet, j) == IF j = 0 THEN packet.b0 ELSE (packet.fill + j) % 256

\* payload[pos + (18 * i + c) * 2 + 0] << 8 | payload[pos + (18 * i + c) * 2 + 1]
SampleWord(packet, pos, k, c) ==
    LET at == pos + (((NUM_CHANNELS * k) + c) * 2)
    IN  (PayloadByte(packet, at) * 256) + PayloadByte(packet, at + 1)

\* (packet.payload[0] >> 4) & 0b111
MarkerOf(packet) == (packet.b0 \div 16) % 8

\* ccsds::parseCCSDSTimeFullRaw(&packet.payload[2], 10957, 10000, 10000)
parseCCSDSTimeFullRaw(packet) == packet.time

Min(a, b) == IF a < b THEN a ELSE b

\* The loop "for i < count: buf[start + i] = word(i)" on a vector: writes past
\* the vector's end are left out here and reported by WritesOutside.
WriteSamples(buf, start, count, packet, pos, c) ==
    LET lo == Min(start, Len(buf))
        hi == Min(start + count, Len(buf))
    IN  SubSeq(buf, 1, lo)
        \o [k \in 1..(hi - lo) |-> SampleWord(packet, pos, k - 1, c)]
        \o SubSeq(buf, hi + 1, Len(buf))

WritesOutside(buf, start, count) == count > 0 /\ start + count > Len(buf)

\* vector::resize(n): truncates, or appends zeroes.
Resize(buf, n) ==
    IF n <= Len(buf) THEN SubSeq(buf, 1, n)
    ELSE buf \o [k \in 1..(n - Len(buf)) |-> 0]

\* The resize without the spare line.
RoomForNoSpare(n) == n * SCAN_WIDTH

\* The size every channel buffer is given at the end of work().
RoomFor(n) == (n + 1) * SCAN_WIDTH

\* Where a packet's samples go within the scan line, how many they are and
\* where they start in the payload, by marker.
SegmentOf(marker) ==
    CASE marker = 1 -> [first |-> 0,  count |-> 14, pos |-> 224 + (144 * 2)]
      [] marker = 2 -> [first |-> 14, count |-> 28, pos |-> 8]
      [] marker = 3 -> [first |-> 42, count |-> 28, pos |-> 8]
      [] marker = 4 -> [first |-> 70, count |-> 28, pos |-> 8]
      [] OTHER      -> [first |-> 0,  count |-> 0,  pos |-> 0]

\* The image row holding the buffer index at: rows are 98 samples wide.
RowOf(at) == at \div SCAN_WIDTH

\* The packets given to work() most recently, for as long as they are the
\* markers 1, 2, 3, 4 in that order: for each, the row its samples were written
\* to and the index of the latest timestamp pushed when it was handled (for
\* marker 1, the timestamp it pushed itself).
ScanAfter(sofar, marker, row, stamp) ==
    LET entry == [marker |-> marker, row |-> row, stamp |-> stamp]
    IN  IF marker = 1 THEN <<entry>>
        ELSE IF marker \in 2..4 /\ Len(sofar) = marker - 1 THEN Append(sofar, entry)
        ELSE <<>>

\* MWTS3Reader::getChannel(channel): the image of 98 columns and lines rows
\* over the start of the channel's buffer.
getChannel(channel) ==
    [width  |-> SCAN_WIDTH,
     height |-> lines,
     data   |-> SubSeq(channels[channel], 1, SCAN_WIDTH * lines)]

\* MWTS3Reader::MWTS3Reader(): 98 zeroed samples per channel, no line.
ReaderInit ==
    /\ channels = [c \in 0..(NUM_CHANNELS - 1) |-> [k \in 1..SCAN_WIDTH |-> 0]]
    /\ lines = 0
    /\ timestamps = <<>>
    /\ write_outside = FALSE
    /\ fed = NoPacket
    /\ scan = <<>>

\* MWTS3Reader::work(packet)
Work(packet) ==
    IF packet.size < MIN_PAYLOAD
    THEN /\ fed' = packet.size
         /\ scan' = <<>>
         /\ UNCHANGED <<channels, lines, timestamps, write_outside>>
    ELSE LET marker == MarkerOf(packet)
             seg    == SegmentOf(marker)
             start  == (lines * SCAN_WIDTH) + seg.first
         IN  /\ marker = 1 => lines < MaxScanLines
             /\ fed' = packet.size
             /\ lines' = IF marker = 1 THEN lines + 1 ELSE lines
             /\ timestamps' =
                    IF marker = 1
                    THEN Append(timestamps, parseCCSDSTimeFullRaw(packet) + (12 * 3600))
                    ELSE timestamps
             /\ write_outside' =
                    (write_outside \/
                     \E c \in DOMAIN channels : WritesOutside(channels[c], start, seg.count))
             /\ channels' =
                    [c \in DOMAIN channels |->
                        Resize(WriteSamples(channels[c], start, seg.count, packet, seg.pos, c),
                               RoomFor(lines'))]
             /\ scan' = ScanAfter(scan, marker, RowOf(start), Len(timestamps') - 1)

Feed ==
    /\ \E packet \in PacketSet : Work(packet)
    /\ UNCHANGED leoVars

LEOInit ==
    /\ pc = "new"
    /\ corrected_width = 0
    /\ curvature_correction_factors_fwd = <<>>
    /\ curvature_correction_factors_inv = <<>>
    /\ i = 0
    /\ currentScan = 0
    /\ poss = <<>>
    /\ projs = <<>>
    /\ sat_footprints = <<>>
    /\ oracle_calls = <<>>
    /\ call = NoCall
    /\ geo = NoGeo

\* No reader exists while a projector is explored.
NoReader ==
    /\ channels = <<>>
    /\ lines = 0
    /\ timestamps = <<>>
    /\ write_outside = FALSE
    /\ fed = NoPacket
    /\ scan = <<>>

\* A projector about to be constructed from any configuration explored.
Init ==
    /\ settings \in SettingsSet
    /\ LEOInit
    /\ NoReader

Next ==
    \/ InitCurvatureTable
    \/ CurvatureStep
    \/ BeginGenerate
    \/ GenerateScan
    \/ Constructed
    \/ Query

Spec == Init /\ [][Next]_vars

\* A reader just constructed; no projector is built while it is fed.
InitMWTS3 ==
    /\ settings = BaseSettings
    /\ LEOInit
    /\ ReaderInit

NextMWTS3 == Feed

SpecMWTS3 == InitMWTS3 /\ [][NextMWTS3]_vars

\* ------------------------------------------------------------------ claims

\* A line index that addresses an existing per-line projection.
ExistingLine(img_y) == img_y >= 0 /\ img_y < NumLines

\* C1: every inverse() call whose line index is at or beyond the number of
\* configured scan lines returns the out-of-range result 1 and reads neither
\* projs nor sat_footprints.
C1_LineBeyondEndRejected ==
    (call.made /\ call.img_y >= NumLines) => (call.ret = 1 /\ ~call.line_read)

\* C2: every inverse() call whose pixel is at or beyond the raw image width
\* returns 1, does not invoke the projection primitive's inverse and leaves
\* the lat / lon outputs as they were handed in.
C2_PixelBeyondWidthRejected ==
    (call.made /\ call.img_x >= settings.image_width)
        => (call.ret = 1 /\ ~call.pj_called /\ ~call.line_read /\ geo = NoGeo)

\* C2 witness: a call on an existing line, correction off or on, rejected for
\* its pixel alone.
C2_Witness ==
    /\ call.made
    /\ call.img_x = settings.image_width
    /\ ExistingLine(call.img_y)
    /\ call.ret = 1
    /\ geo = NoGeo

\* C3: once constructed, projs, sat_footprints and poss hold one entry per
\* timestamp, and entry k of each is the one computed from
\* utc_timestamps[k] + time_offset, in scan order.
C3_OneEntryPerLineInOrder ==
    pc = "ready" =>
        /\ Len(projs) = NumLines
        /\ Len(sat_footprints) = NumLines
        /\ Len(poss) = NumLines
        /\ \A k \in 1..NumLines :
            LET t   == settings.utc_timestamps[k] + settings.time_offset
                pos == predict_orbit(settings.sat_tle, t)
            IN  /\ poss[k] = pos
                /\ poss[k].time = t
                /\ sat_footprints[k] = pos.footprint
                /\ projs[k].altitude = pos.altitude * 1000
                /\ projs[k].lon = ToDeg(pos.longitude)
                /\ projs[k].lat = ToDeg(pos.latitude)
                /\ projs[k].tilt = settings.tilt_offset

\* C3 witness: a projector built from several lines with distinct timestamps
\* and a non-zero time offset.
C3_Witness ==
    /\ pc = "ready"
    /\ NumLines >= 2
    /\ settings.utc_timestamps[1] # settings.utc_timestamps[2]
    /\ settings.time_offset # 0
    /\ Len(projs) = NumLines
    /\ poss[1] # poss[2]

\* The tables are complete: initCurvatureTable has returned.
TablesBuilt == pc \in {"generate", "ready", "crashed"}

\* The pixel inverse() recentres: img_x, or its mirror under scan inversion.
MirroredPixel(img_x) ==
    IF settings.invert_scan THEN (settings.image_width - 1) - img_x ELSE img_x

\* A completed uncorrected call on an existing line, tilt and azimuth
\* offsets being zero.
PlainCallOnLine ==
    /\ call.made
    /\ call.pj_called
    /\ ~call.correct
    /\ ExistingLine(call.img_y)
    /\ settings.tilt_offset = 0
    /\ settings.az_offset = 0

C5_RoundTripWithinOne ==
    TablesBuilt =>
        \A k \in 1..Len(curvature_correction_factors_fwd) :
            LET r == RoundOf(curvature_correction_factors_fwd[k])
            IN  /\ r \in DOMAIN curvature_correction_factors_inv
                /\ curvature_correction_factors_inv[r] # Unwritten
                /\ Abs(curvature_correction_factors_inv[r] - (k - 1)) <= 1

\* C5 amended: for every index i of the forward table, with p the truncation
\* int(forward[i]), inverse[p] is the largest index whose forward value
\* truncates to p: it is at least i and maps back into the same raw pixel.
C5_RoundTripSamePixel ==
    TablesBuilt =>
        \A k \in 1..Len(curvature_correction_factors_fwd) :
            LET p == IntOf(curvature_correction_factors_fwd[k])
                j == curvature_correction_factors_inv[p]
            IN  /\ p \in DOMAIN curvature_correction_factors_inv
                /\ j >= k - 1
                /\ j < Len(curvature_correction_factors_fwd)
                /\ IntOf(curvature_correction_factors_fwd[j + 1]) = p
                /\ \A m \in (j + 2)..Len(curvature_correction_factors_fwd) :
                       IntOf(curvature_correction_factors_fwd[m]) # p

\* C5 witness: tables in which some index comes back more than 1 away.
C5_Witness ==
    /\ TablesBuilt
    /\ \E k \in 1..Len(curvature_correction_factors_fwd) :
           curvature_correction_factors_inv[
               IntOf(curvature_correction_factors_fwd[k])] - (k - 1) > 1

\* C6 as claimed: once constructed, the forward table has image_width
\* entries and the inverse table has corrected_width entries, each a raw
\* pixel index.
C6_TableShapesAsClaimed ==
    pc = "ready" =>
        /\ Len(curvature_correction_factors_fwd) = settings.image_width
        /\ Cardinality(DOMAIN curvature_correction_factors_inv) = corrected_width
        /\ \A k \in DOMAIN curvature_correction_factors_inv :
               curvature_correction_factors_inv[k] \in 0..(settings.image_width - 1)

\* C6 amended: once constructed, corrected_width is swath / resolution
\* rounded to the nearest integer; the forward table has corrected_width
\* entries, indexed by corrected pixel, each a raw pixel position in
\* [0, image_width); the inverse table's storage has image_width slots,
\* indexed by raw pixel, each unwritten or a corrected pixel index.
C6_TableShapes ==
    pc = "ready" =>
        /\ 2 * Abs((corrected_width * settings.correction_res)
                   - settings.correction_swath) <= settings.correction_res
        /\ Len(curvature_correction_factors_fwd) = corrected_width
        /\ \A k \in 1..corrected_width :
               /\ curvature_correction_factors_fwd[k] >= 0
               /\ curvature_correction_factors_fwd[k] < settings.image_width * FX
        /\ DOMAIN curvature_correction_factors_inv = 0..(settings.image_width - 1)
        /\ \A k \in DOMAIN curvature_correction_factors_inv :
               \/ curvature_correction_factors_inv[k] = Unwritten
               \/ curvature_correction_factors_inv[k] \in 0..(corrected_width - 1)

\* C6 witness: a constructed projector whose corrected width, rounded up
\* from swath / resolution, differs from its image width.
C6_Witness ==
    /\ pc = "ready"
    /\ corrected_width # settings.image_width
    /\ corrected_width * settings.correction_res > settings.correction_swath
    /\ Len(curvature_correction_factors_fwd) = corrected_width

\* C7: every inverse() call with curvature correction that passes the bounds
\* check for a pixel of the image and an existing line reads a slot of the
\* inverse table that construction wrote.
C7_NoGapRead ==
    (call.made /\ call.table_read /\ ExistingLine(call.img_y)
     /\ call.img_x >= 0 /\ call.img_x < settings.image_width)
        => ~call.table_gap

\* C8: the azimuth stored in every line's projection is a number, never NaN.
C8_AzimuthDefined ==
    \A k \in 1..Len(projs) : ~projs[k].az.nan

\* C9 as claimed: for every line, the two finite-difference positions are
\* asked of the oracle at the line's time t minus and plus 200 milliseconds.
C9_WindowMillis ==
    \A k \in 1..Len(oracle_calls) :
        LET t == settings.utc_timestamps[k] + settings.time_offset
        IN  /\ oracle_calls[k].line = t
            /\ oracle_calls[k].before = t - 200
            /\ oracle_calls[k].after = t + 200

\* C9 amended: for every line, the two finite-difference positions are asked
\* of the oracle at the line's time t minus and plus 200 seconds, t being
\* the time (timestamp plus time offset) of the line's own position.
C9_WindowSeconds ==
    \A k \in 1..Len(oracle_calls) :
        LET t == settings.utc_timestamps[k] + settings.time_offset
        IN  /\ oracle_calls[k].line = t
            /\ poss[k].time = t
            /\ oracle_calls[k].before = t - 200000
            /\ oracle_calls[k].after = t + 200000

\* C9 witness: a line has been generated under a non-zero time offset.
C9_Witness ==
    /\ Len(oracle_calls) >= 1
    /\ settings.time_offset # 0
    /\ oracle_calls[1].after - oracle_calls[1].before = 400000

\* C10: every channel buffer always has length (lines + 1) * 98, no sample
\* write of work() falls outside its buffer, and a packet whose payload is
\* shorter than 1018 bytes leaves lines, timestamps and the buffers unchanged.
C10_BuffersSized ==
    /\ [](/\ DOMAIN channels = 0..17
          /\ \A c \in DOMAIN channels : Len(channels[c]) = (lines + 1) * 98
          /\ Len(timestamps) = lines
          /\ ~write_outside)
    /\ [][(fed' >= 0 /\ fed' < 1018)
              => (channels' = channels /\ lines' = lines /\ timestamps' = timestamps)]_vars

\* C10 witness: a short packet has just been given to a reader that holds
\* lines and samples.
C10_Witness ==
    /\ fed >= 0
    /\ fed < 1018
    /\ lines >= 1
    /\ channels[17][1] # 0
    /\ channels[0][SCAN_WIDTH + 15] # 0
    /\ Len(channels[0]) = (lines + 1) * 98

\* A whole scan has just been delivered: four packets, markers 1, 2, 3, 4.
ScanDelivered == Len(scan) = 4

\* C11: when a scan has been delivered as the markers 1, 2, 3, 4 in order, its
\* four packets were all written to the same image row, that row is the index
\* of the timestamp pushed for the scan, and it lies inside the image that
\* getChannel returns (row < height = lines).
C11_ScanInOneRow ==
    ScanDelivered =>
        /\ \A k \in 1..4 : scan[k].row = scan[1].row
        /\ scan[1].row = scan[1].stamp
        /\ \A k \in 1..4 : scan[k].row < getChannel(0).height

====
